---- MODULE Spec2Model ----
(***************************************************************************)
(* InsightBridge security API: the process life cycle (lifespan), the      *)
(* request handlers of INSIGHTBRIDGE_API/insightbridge_api.py and of       *)
(* INSIGHTBRIDGE_API/simple_test_api.py, and the components they drive     *)
(* (NonceStore, HashChain, Receiver, PersistenceManager).                  *)
(*                                                                         *)
(* Every handler is an `async def` without an await: the event loop runs   *)
(* it to completion before it starts another one, so a handler is one      *)
(* action and concurrent requests are the orders in which the actions are  *)
(* taken.                                                                  *)
(*                                                                         *)
(* The classes NonceStore, HashChain, Receiver and PersistenceManager are  *)
(* imported from insightbridge-phase3 (insightbridge_api.py lines 23-31);  *)
(* their methods are modelled from the specification, their fields from    *)
(* the accesses the lifespan handler makes (lines 84-100).                 *)
(*                                                                         *)
(* insightbridge_api.py names lifespan at line 41, before line 62 defines  *)
(* it; the model is of the module with the definition in place.            *)
(***************************************************************************)
EXTENDS Integers, Sequences, FiniteSets, TLC

\* ------------------------------------------------------------------ bounds
MaxTime == 3
MaxOps == 3
MaxRuns == 2

\* The largest RECEIVER_BUFFER_SIZE a deployment configures.
MaxBuffer == 2
MaxCapacity == 5

\* NONCE_MAX_AGE of src.common.config, scaled.
NONCE_MAX_AGE == 2

\* The values RECEIVER_BUFFER_SIZE of src.common.config takes.
BufferSizes == 1..MaxBuffer

\* ------------------------------------------------------------------ values
\* A JSON value that is not a string (a list, an object): Python cannot hash it.
Unhashable == "unhashable"
NonceStrings == {"n1", "n2"}
Payloads == {"p1", "p2"}
Messages ==
    {[body |-> "m1", corrupt |-> FALSE], [body |-> "m2", corrupt |-> FALSE],
     [body |-> "m3", corrupt |-> TRUE]}

VARIABLES phase, now, run, rsa_keys, max_age, seen, timestamps, chain, buffer,
          max_buffer, last_heartbeat, disk, log, crypto_available,
          disk_tampered, tampered, RECEIVER_BUFFER_SIZE, signature_first, tmp,
          lock, pc

keyVars == <<rsa_keys>>
nonceVars == <<max_age, seen, timestamps>>
chainVars == <<chain, tampered>>
receiverVars == <<buffer, max_buffer, last_heartbeat>>
diskVars == <<disk, disk_tampered, tmp>>
configVars == <<RECEIVER_BUFFER_SIZE, signature_first>>
lockVars == <<lock, pc>>

vars == <<phase, now, run, keyVars, nonceVars, chainVars, receiverVars, diskVars,
          log, crypto_available, configVars, lockVars>>

\* The components that hold state, each behind its own exclusive lock, in the
\* order save_all is handed them (line 110).
ComponentOrder == <<"keys", "nonces", "chain", "receiver">>
Components == {ComponentOrder[i] : i \in 1..Len(ComponentOrder)}
Free == "free"

\* The requests the transport runs at once, and the lifespan coroutine.
Workers == {"w1", "w2"}
Lifespan == "lifespan"
Idle == [op |-> "none", k |-> 0, at |-> "idle"]

\* The empty mapping (a Python {}).
EmptyMap == [x \in {} |-> 0]

\* ------------------------------------------------------------- NonceStore
\* An entry older than max-age.
NonceExpired(ts, v, t, age) == t - ts[v] > age

\* The lazy purge: the entries that are not older than max-age.
PurgeSeen(s, ts, t, age) == {v \in s : ~NonceExpired(ts, v, t, age)}

\* v has been seen within the max-age window.
InWindow(s, ts, v, t, age) == v \in s /\ ~NonceExpired(ts, v, t, age)

\* As check_and_add, but a replay refreshes the value's first_seen.
check_and_add_refresh(s, ts, v, t, age, purge) ==
    LET s1 == IF purge THEN PurgeSeen(s, ts, t, age) ELSE s
        hit == InWindow(s1, ts, v, t, age)
        s2 == s1 \cup {v}
    IN  [raised |-> FALSE, accepted |-> ~hit, seen |-> s2,
         timestamps |-> [x \in s2 |-> IF x = v THEN t ELSE ts[x]]]

\* NonceStore.check_and_add(v) at instant t, max-age being age; purge: whether this call runs the
\* lazy purge before the check. A value Python cannot hash raises (seen is a set).
check_and_add(s, ts, v, t, age, purge) ==
    IF v = Unhashable
    THEN [raised |-> TRUE, accepted |-> FALSE, seen |-> s, timestamps |-> ts]
    ELSE LET s1 == IF purge THEN PurgeSeen(s, ts, t, age) ELSE s
             hit == InWindow(s1, ts, v, t, age)
             s2 == IF hit THEN s1 ELSE s1 \cup {v}
         IN  [raised |-> FALSE, accepted |-> ~hit, seen |-> s2,
              timestamps |-> [x \in s2 |-> IF x = v /\ ~hit THEN t ELSE ts[x]]]

\* -------------------------------------------------------------- HashChain
\* The prev_hash of entry 0.
Genesis == <<>>

\* The digest H(index, timestamp, payload, prev_hash): collision-free, so it is
\* the encoding of its four inputs.
H(index, timestamp, payload, prev_hash) == <<index, timestamp, payload, prev_hash>>

\* HashChain.last_hash()
last_hash(c) == IF Len(c) = 0 THEN Genesis ELSE c[Len(c)].hash

\* The entry HashChain.append(payload) builds at instant t.
NewEntry(c, payload, t) ==
    [index |-> Len(c), timestamp |-> t, payload |-> payload,
     prev_hash |-> last_hash(c),
     hash |-> H(Len(c), t, payload, last_hash(c))]

\* As append, but every entry is linked to the genesis sentinel.
append_links_genesis(c, payload, t) ==
    LET e == [index |-> Len(c), timestamp |-> t, payload |-> payload,
              prev_hash |-> Genesis, hash |-> H(Len(c), t, payload, Genesis)]
    IN  [chain |-> Append(c, e), hash |-> e.hash]

\* HashChain.append(payload) at instant t: the chain afterwards and the new
\* hash, which it returns.
append(c, payload, t) ==
    [chain |-> Append(c, NewEntry(c, payload, t)),
     hash |-> NewEntry(c, payload, t).hash]

\* HashChain.to_list()
to_list(c) == c

\* As verify_integrity, but only every entry's own hash is recomputed; the
\* linkage is not looked at.
verify_integrity_unlinked(c) ==
    \A i \in 1..Len(c) :
        c[i].hash = H(c[i].index, c[i].timestamp, c[i].payload, c[i].prev_hash)

\* HashChain.verify_integrity(): recompute every hash, confirm the linkage.
verify_integrity(c) ==
    \A i \in 1..Len(c) :
        /\ c[i].prev_hash = (IF i = 1 THEN Genesis ELSE c[i - 1].hash)
        /\ c[i].hash = H(c[i].index, c[i].timestamp, c[i].payload, c[i].prev_hash)

\* --------------------------------------------------------------- Receiver
\* The integrity check of Receiver.receive.
IntegrityOK(m) == ~m.corrupt

\* Receiver.receive(m): [ok, buffer].
receive(buf, cap, m) ==
    IF Len(buf) >= cap \/ ~IntegrityOK(m)
    THEN [ok |-> FALSE, buffer |-> buf]
    ELSE [ok |-> TRUE, buffer |-> Append(buf, m)]

\* ----------------------------------------------------- PersistenceManager
\* The durable record before any snapshot was written: every section absent.
NoRecord ==
    [rsa_keys |-> [present |-> FALSE, keys |-> EmptyMap],
     nonce_store |-> [present |-> FALSE, seen |-> {}, timestamps |-> EmptyMap],
     hashchain |-> [present |-> FALSE, chain |-> <<>>],
     receiver_buffer |-> [present |-> FALSE, buffer |-> <<>>, max_buffer |-> 0],
     well_formed |-> TRUE]

\* PersistenceManager.save_all(rsa_keys, nonce_store, hash_chain, receiver)
save_all(keys, s, ts, c, buf, cap) ==
    [rsa_keys |-> [present |-> TRUE, keys |-> keys],
     nonce_store |-> [present |-> TRUE, seen |-> s, timestamps |-> ts],
     hashchain |-> [present |-> TRUE, chain |-> c],
     receiver_buffer |-> [present |-> TRUE, buffer |-> buf, max_buffer |-> cap],
     well_formed |-> TRUE]

\* A record with every section written.
AllPresent(d) ==
    /\ d.rsa_keys.present
    /\ d.nonce_store.present
    /\ d.hashchain.present
    /\ d.receiver_buffer.present

\* PersistenceManager.load_all()
load_all(d) == d

\* PersistenceManager.load_all() fails with PersistenceCorruptError: the record
\* is there and cannot be read.
load_all_raises(d) == ~d.well_formed

\* Python truthiness of the loaded key mapping: absent (None) and {} are falsy.
TruthyKeys(section) == section.present /\ DOMAIN section.keys # {}

\* Python truthiness of a loaded section that is a mapping with fixed keys.
Truthy(section) == section.present

\* As SectionLoaded, but the three later loads sit inside the branch that
\* loaded the keys.
SectionLoadedAfterKeys(data, name) ==
    TruthyKeys(data.rsa_keys) /\ Truthy(data[name])

\* if persisted_data["nonce_store"]: ... if persisted_data["hashchain"]: ...
\* if persisted_data["receiver_buffer"]: (lines 82, 90, 97).
SectionLoaded(data, name) == Truthy(data[name])

\* ----------------------------------------------------------------- state
\* As FreshGlobals, but the NonceStore is constructed without its max-age.
FreshGlobalsNoMaxAge(cap) ==
    [rsa_keys |-> EmptyMap, max_age |-> 0, seen |-> {}, timestamps |-> EmptyMap,
     chain |-> <<>>, buffer |-> <<>>, max_buffer |-> cap, last_heartbeat |-> 0]

\* The module globals a starting process constructs (lines 53-59), cap being
\* the configured RECEIVER_BUFFER_SIZE.
FreshGlobals(cap) ==
    [rsa_keys |-> EmptyMap, max_age |-> NONCE_MAX_AGE, seen |-> {},
     timestamps |-> EmptyMap, chain |-> <<>>, buffer |-> <<>>, max_buffer |-> cap,
     last_heartbeat |-> 0]

\* No process has run yet and no record was ever written.
Init ==
    /\ phase = "down"
    /\ now = 0
    /\ run = 0
    /\ rsa_keys = EmptyMap
    /\ max_age = NONCE_MAX_AGE
    /\ seen = {}
    /\ timestamps = EmptyMap
    /\ chain = <<>>
    /\ buffer = <<>>
    /\ max_buffer = MaxBuffer
    /\ last_heartbeat = 0
    /\ disk = NoRecord
    /\ tmp = NoRecord
    /\ log = <<>>
    /\ crypto_available = TRUE
    /\ disk_tampered = {}
    /\ tampered = {}
    /\ RECEIVER_BUFFER_SIZE = MaxBuffer
    /\ signature_first = TRUE
    /\ lock = [c \in Components |-> Free]
    /\ pc = [w \in Workers |-> Idle]

\* The clock.
Tick ==
    /\ now < MaxTime
    /\ now' = now + 1
    /\ UNCHANGED <<phase, run, keyVars, nonceVars, chainVars, receiverVars,
                   diskVars, log, crypto_available, configVars, lockVars>>

\* As initialize_keys, but the dictionary is bound anew to the one pair.
initialize_keys_resets(keys, k) == [x \in {"default"} |-> k]

\* initialize_keys(): a newly generated pair k under "default" (gen_rsa never
\* returns the same pair twice: k is the number of the process run).
initialize_keys(keys, k) == [x \in DOMAIN keys \cup {"default"} |->
                                IF x = "default" THEN k ELSE keys[x]]

\* As RestoredChain, but the loader rebuilds every hash from the stored fields.
RestoredChainRehashed(section) ==
    LET c == section.chain
        Rebuilt[i \in 0..Len(c)] ==
            IF i = 0 THEN <<>>
            ELSE Append(Rebuilt[i - 1],
                        [index |-> c[i].index, timestamp |-> c[i].timestamp,
                         payload |-> c[i].payload,
                         prev_hash |-> last_hash(Rebuilt[i - 1]),
                         hash |-> H(c[i].index, c[i].timestamp, c[i].payload,
                                    last_hash(Rebuilt[i - 1]))])
    IN  Rebuilt[Len(c)]

\* As RestoredChain, but the loader skips the first stored entry.
RestoredChainSkipsFirst(section) ==
    IF Len(section.chain) = 0 THEN <<>> ELSE Tail(section.chain)

\* hash_chain.chain = chain_data["chain"] (lines 91-92).
RestoredChain(section) == section.chain

\* As RestoredTimestamps, but every restored value is stamped with the
\* instant of the load.
RestoredTimestampsRestamped(section) ==
    [x \in DOMAIN section.timestamps |-> now]

\* nonce_store.timestamps = nonce_data["timestamps"] (line 85).
RestoredTimestamps(section) == section.timestamps

\* nonce_store.seen = set(nonce_data["seen"]) (line 84).
RestoredSeen(section) == section.seen

\* As RestoredCapacity, but the configured capacity is kept (line 100 missing).
RestoredCapacityKeepsConfigured(section, cap) == cap

\* receiver.max_buffer = buffer_data["max_buffer"] (line 100).
RestoredCapacity(section, cap) == section.max_buffer

\* Between two process runs the deployment changes RECEIVER_BUFFER_SIZE.
Reconfigure ==
    /\ phase = "down"
    /\ \E cap \in BufferSizes \ {RECEIVER_BUFFER_SIZE} : RECEIVER_BUFFER_SIZE' = cap
    /\ UNCHANGED <<phase, now, run, keyVars, nonceVars, chainVars, receiverVars,
                   diskVars, log, crypto_available, signature_first,
                   lockVars>>

\* A process starts: the module globals are constructed under the current
\* configuration, then the startup half of lifespan loads every persisted
\* section that is present.
lifespan_startup ==
    /\ phase = "down"
    /\ run < MaxRuns
    /\ ~load_all_raises(disk)
    /\ LET cap == RECEIVER_BUFFER_SIZE
           g == FreshGlobals(cap)
           persisted_data == load_all(disk)
       IN    /\ rsa_keys' = IF TruthyKeys(persisted_data.rsa_keys)
                            THEN persisted_data.rsa_keys.keys
                            ELSE initialize_keys(g.rsa_keys, run + 1)
             /\ max_age' = g.max_age
             /\ seen' = IF SectionLoaded(persisted_data, "nonce_store")
                        THEN RestoredSeen(persisted_data.nonce_store) ELSE g.seen
             /\ timestamps' = IF SectionLoaded(persisted_data, "nonce_store")
                              THEN RestoredTimestamps(persisted_data.nonce_store)
                              ELSE g.timestamps
             /\ chain' = IF SectionLoaded(persisted_data, "hashchain")
                         THEN RestoredChain(persisted_data.hashchain) ELSE g.chain
             /\ tampered' = IF SectionLoaded(persisted_data, "hashchain")
                            THEN disk_tampered ELSE {}
             /\ buffer' = IF SectionLoaded(persisted_data, "receiver_buffer")
                          THEN persisted_data.receiver_buffer.buffer ELSE g.buffer
             /\ max_buffer' = IF SectionLoaded(persisted_data, "receiver_buffer")
                              THEN RestoredCapacity(persisted_data.receiver_buffer, cap)
                              ELSE g.max_buffer
             /\ last_heartbeat' = g.last_heartbeat
    /\ phase' = "up"
    /\ run' = run + 1
    /\ UNCHANGED <<now, diskVars, log, crypto_available, configVars, lockVars>>

\* As lifespan_startup_fails, but the failure of load_all is caught and the
\* process starts on fresh state.
lifespan_startup_ignores_corrupt ==
    /\ phase \in {"down", "failed"}
    /\ run < MaxRuns
    /\ load_all_raises(disk)
    /\ phase' = "up"
    /\ run' = run + 1
    /\ rsa_keys' = initialize_keys(EmptyMap, run + 1)
    /\ max_buffer' = RECEIVER_BUFFER_SIZE
    /\ UNCHANGED <<now, nonceVars, chainVars, buffer, last_heartbeat, diskVars, log,
                   crypto_available, configVars, lockVars>>

\* A process starts on a record load_all cannot read: the error leaves lifespan
\* (line 69 is in no try), the application does not start, nothing is written.
lifespan_startup_fails ==
    /\ phase \in {"down", "failed"}
    /\ run < MaxRuns
    /\ load_all_raises(disk)
    /\ phase' = "failed"
    /\ run' = run + 1
    /\ UNCHANGED <<now, keyVars, nonceVars, chainVars, receiverVars, diskVars, log,
                   crypto_available, configVars, lockVars>>

\* The process is gone and its memory with it: until the next process
\* constructs its globals, the memory variables hold their initial values.
ProcessEnds ==
    /\ phase' = "down"
    /\ rsa_keys' = EmptyMap
    /\ max_age' = NONCE_MAX_AGE
    /\ seen' = {}
    /\ timestamps' = EmptyMap
    /\ chain' = <<>>
    /\ tampered' = {}
    /\ buffer' = <<>>
    /\ max_buffer' = MaxBuffer
    /\ last_heartbeat' = 0

\* lifespan, shutdown half: save everything; the process then ends.
lifespan_shutdown ==
    /\ phase = "up"
    /\ disk' = save_all(rsa_keys, seen, timestamps, chain, buffer, max_buffer)
    /\ disk_tampered' = tampered
    /\ tmp' = tmp
    /\ ProcessEnds
    /\ UNCHANGED <<now, run, log, crypto_available, configVars, lockVars>>

\* The process is killed: nothing is saved.
Crash ==
    /\ phase = "up"
    /\ ProcessEnds
    /\ UNCHANGED <<now, run, diskVars, log, crypto_available, configVars, lockVars>>

CanServe == phase = "up" /\ Len(log) < MaxOps

\* POST /security/nonce/check: the reply for a check_and_add outcome.
NonceReply(v, r) ==
    IF r.raised
    THEN [op |-> "check_nonce", run |-> run, arg |-> v, at |-> now, status |-> 500, accepted |-> FALSE]
    ELSE [op |-> "check_nonce", run |-> run, arg |-> v, at |-> now, status |-> 200, accepted |-> r.accepted]

\* As check_nonce, but every request checks a NonceStore of its own.
check_nonce_fresh_store ==
    /\ CanServe
    /\ \E v \in NonceStrings, purge \in BOOLEAN :
         LET r == check_and_add({}, EmptyMap, v, now, max_age, purge)
         IN  log' = Append(log, NonceReply(v, r))
    /\ UNCHANGED <<phase, now, run, keyVars, nonceVars, chainVars, receiverVars,
                   diskVars, crypto_available, configVars, lockVars>>

\* POST /security/nonce/check (NonceRequest.nonce is a str).
check_nonce ==
    /\ CanServe
    /\ \E v \in NonceStrings, purge \in BOOLEAN :
         LET r == check_and_add(seen, timestamps, v, now, max_age, purge)
         IN  /\ seen' = r.seen
             /\ timestamps' = r.timestamps
             /\ log' = Append(log, NonceReply(v, r))
    /\ UNCHANGED <<phase, now, run, keyVars, max_age, chainVars, receiverVars,
                   diskVars, crypto_available, configVars, lockVars>>

\* As append_to_hashchain, but the entry is built on the chain as it was
\* before the latest append and replaces that append's entry.
append_to_hashchain_lost_update ==
    /\ CanServe
    /\ \E data \in Payloads :
         LET stale == IF chain = <<>> THEN chain ELSE SubSeq(chain, 1, Len(chain) - 1)
             previous_hash == last_hash(stale)
             r == append(stale, data, now)
         IN  /\ chain' = r.chain
             /\ log' = Append(log, [op |-> "append_to_hashchain", arg |-> data,
                                    status |-> 200,
                                    hash |-> r.hash,
                                    previous_hash |-> previous_hash,
                                    entry_count |-> Len(to_list(r.chain))])
    /\ UNCHANGED <<phase, now, run, keyVars, nonceVars, tampered, receiverVars,
                   diskVars, crypto_available, configVars, lockVars>>

\* As append_to_hashchain, but the reply's hash is the one read before the
\* append.
append_to_hashchain_returns_previous ==
    /\ CanServe
    /\ \E data \in Payloads :
         LET previous_hash == last_hash(chain)
             r == append(chain, data, now)
         IN  /\ chain' = r.chain
             /\ log' = Append(log, [op |-> "append_to_hashchain", arg |-> data,
                                    status |-> 200,
                                    hash |-> previous_hash,
                                    previous_hash |-> previous_hash,
                                    entry_count |-> Len(to_list(r.chain))])
    /\ UNCHANGED <<phase, now, run, keyVars, nonceVars, tampered, receiverVars,
                   diskVars, crypto_available, configVars, lockVars>>

\* As append_to_hashchain, but previous_hash is read after the append.
append_to_hashchain_reads_after ==
    /\ CanServe
    /\ \E data \in Payloads :
         LET previous_hash == last_hash(chain)
             r == append(chain, data, now)
         IN  /\ chain' = r.chain
             /\ log' = Append(log, [op |-> "append_to_hashchain", arg |-> data,
                                    status |-> 200,
                                    hash |-> r.hash,
                                    previous_hash |-> last_hash(r.chain),
                                    entry_count |-> Len(to_list(r.chain))])
    /\ UNCHANGED <<phase, now, run, keyVars, nonceVars, tampered, receiverVars,
                   diskVars, crypto_available, configVars, lockVars>>

\* POST /audit/hashchain/append
append_to_hashchain ==
    /\ CanServe
    /\ \E data \in Payloads :
         LET previous_hash == last_hash(chain)
             r == append(chain, data, now)
         IN  /\ chain' = r.chain
             /\ log' = Append(log, [op |-> "append_to_hashchain", arg |-> data,
                                    status |-> 200,
                                    hash |-> r.hash,
                                    previous_hash |-> previous_hash,
                                    entry_count |-> Len(to_list(r.chain))])
    /\ UNCHANGED <<phase, now, run, keyVars, nonceVars, tampered, receiverVars,
                   diskVars, crypto_available, configVars, lockVars>>

Reverse(c) == [i \in 1..Len(c) |-> c[Len(c) + 1 - i]]

\* As get_hashchain, but the list is put newest first in place before it is
\* returned (to_list hands out the chain's own list).
get_hashchain_reverses ==
    /\ CanServe
    /\ chain' = Reverse(chain)
    /\ log' = Append(log, [op |-> "get_hashchain", status |-> 200, entries |-> Reverse(chain)])
    /\ UNCHANGED <<phase, now, run, keyVars, nonceVars, tampered, receiverVars,
                   diskVars, crypto_available, configVars, lockVars>>

\* An entry as a reader sees it that looks at it before its hash is stored.
Unhashed(entry) == [entry EXCEPT !.hash = Genesis]

\* As get_hashchain, but the newest entry is read before its hash is stored.
get_hashchain_torn ==
    /\ CanServe
    /\ log' = Append(log, [op |-> "get_hashchain", status |-> 200,
                            entries |-> IF chain = <<>> THEN <<>>
                                        ELSE [to_list(chain) EXCEPT
                                                 ![Len(chain)] = Unhashed(@)]])
    /\ UNCHANGED <<phase, now, run, keyVars, nonceVars, chainVars, receiverVars,
                   diskVars, crypto_available, configVars, lockVars>>

\* GET /audit/hashchain
get_hashchain ==
    /\ CanServe
    /\ log' = Append(log, [op |-> "get_hashchain", status |-> 200, entries |-> to_list(chain)])
    /\ UNCHANGED <<phase, now, run, keyVars, nonceVars, chainVars, receiverVars,
                   diskVars, crypto_available, configVars, lockVars>>

\* As ReceiveReply, but success is hard-coded.
ReceiveReplyAlwaysSuccess(m, r) ==
    [op |-> "receive_message", arg |-> m, status |-> 200,
     success |-> TRUE, buffer_length |-> Len(r.buffer)]

\* The reply of POST /receiver/message (lines 369-376).
ReceiveReply(m, r) ==
    [op |-> "receive_message", arg |-> m, status |-> 200,
     success |-> r.ok, buffer_length |-> Len(r.buffer)]

\* As receive_message, but an accepted message is put at the head of the buffer.
receive_message_prepends ==
    /\ CanServe
    /\ \E m \in Messages :
         LET r == receive(buffer, max_buffer, m)
         IN  /\ buffer' = IF r.ok THEN <<m>> \o buffer ELSE buffer
             /\ log' = Append(log, ReceiveReply(m, r))
    /\ UNCHANGED <<phase, now, run, keyVars, nonceVars, chainVars, max_buffer,
                   last_heartbeat, diskVars, crypto_available, configVars, lockVars>>

\* POST /receiver/message
receive_message ==
    /\ CanServe
    /\ \E m \in Messages :
         LET r == receive(buffer, max_buffer, m)
         IN  /\ buffer' = r.buffer
             /\ log' = Append(log, ReceiveReply(m, r))
    /\ UNCHANGED <<phase, now, run, keyVars, nonceVars, chainVars, max_buffer,
                   last_heartbeat, diskVars, crypto_available, configVars, lockVars>>

\* As buffer_status, but a buffer at exactly 80% still counts as healthy.
buffer_status_above(length, capacity) ==
    IF 10 * length <= 8 * capacity THEN "healthy" ELSE "warning"

\* "healthy" if len(receiver.buffer) < receiver.max_buffer * 0.8 else "warning"
\* (line 398). The comparison is between an int and a float; in tenths it is
\* between integers (the float product is the exact one wherever it is whole).
buffer_status(length, capacity) ==
    IF 10 * length < 8 * capacity THEN "healthy" ELSE "warning"

\* As get_audit_status, but the last hash is the one of the entry before the
\* newest (the chain is read again, at an earlier length).
get_audit_status_mixed ==
    /\ CanServe
    /\ LET chain_length == Len(to_list(chain))
           total_messages == Len(buffer)
           earlier == IF chain = <<>> THEN chain ELSE SubSeq(chain, 1, Len(chain) - 1)
       IN  log' = Append(log, [op |-> "get_audit_status", status |-> 200,
                               chain_length |-> chain_length,
                               last_hash |-> last_hash(earlier),
                               total_messages |-> total_messages,
                               buffer_status |-> buffer_status(Len(buffer), max_buffer)])
    /\ UNCHANGED <<phase, now, run, keyVars, nonceVars, chainVars, receiverVars,
                   diskVars, crypto_available, configVars, lockVars>>

\* GET /audit/status
get_audit_status ==
    /\ CanServe
    /\ LET chain_length == Len(to_list(chain))
           total_messages == Len(buffer)
       IN  log' = Append(log, [op |-> "get_audit_status", status |-> 200,
                               chain_length |-> chain_length,
                               last_hash |-> last_hash(chain),
                               total_messages |-> total_messages,
                               buffer_status |-> buffer_status(Len(buffer), max_buffer)])
    /\ UNCHANGED <<phase, now, run, keyVars, nonceVars, chainVars, receiverVars,
                   diskVars, crypto_available, configVars, lockVars>>

\* As send_heartbeat, but the heartbeat also empties the buffer.
send_heartbeat_drains ==
    /\ CanServe
    /\ last_heartbeat' = now
    /\ buffer' = <<>>
    /\ log' = Append(log, [op |-> "send_heartbeat", status |-> 200])
    /\ UNCHANGED <<phase, now, run, keyVars, nonceVars, chainVars,
                   max_buffer, diskVars, crypto_available, configVars, lockVars>>

\* POST /receiver/heartbeat
send_heartbeat ==
    /\ CanServe
    /\ last_heartbeat' = now
    /\ log' = Append(log, [op |-> "send_heartbeat", status |-> 200])
    /\ UNCHANGED <<phase, now, run, keyVars, nonceVars, chainVars, buffer,
                   max_buffer, diskVars, crypto_available, configVars, lockVars>>

\* Out-of-band: somebody with access to the storage replaces the payload of a
\* persisted chain entry; its hash and prev_hash are left as they were.
TamperRecord ==
    /\ disk.hashchain.present
    /\ \E i \in (1..Len(disk.hashchain.chain)) \ disk_tampered :
         \E p \in Payloads \ {disk.hashchain.chain[i].payload} :
            /\ disk' = [disk EXCEPT !.hashchain.chain[i].payload = p]
            /\ disk_tampered' = disk_tampered \cup {i}
            /\ tmp' = tmp
    /\ UNCHANGED <<phase, now, run, keyVars, nonceVars, chainVars, receiverVars,
                   log, crypto_available, configVars, lockVars>>

\* An entry with another payload and its own hash recomputed from its fields.
Rehashed(entry, p) ==
    [entry EXCEPT !.payload = p,
                  !.hash = H(entry.index, entry.timestamp, p, entry.prev_hash)]

\* Out-of-band: somebody with access to the durable record replaces the
\* payload of a persisted chain entry and recomputes that entry's hash.
TamperRecordRehashed ==
    /\ disk.hashchain.present
    /\ \E i \in 1..Len(disk.hashchain.chain) :
         \E p \in Payloads \ {disk.hashchain.chain[i].payload} :
            disk' = [disk EXCEPT !.hashchain.chain[i] = Rehashed(@, p)]
    /\ UNCHANGED <<phase, now, run, keyVars, nonceVars, chainVars, receiverVars,
                   disk_tampered, tmp, log, crypto_available, configVars, lockVars>>

\* Out-of-band: the record is damaged so that it cannot be read any more.
CorruptRecord ==
    /\ disk.well_formed
    /\ disk # NoRecord
    /\ disk' = [disk EXCEPT !.well_formed = FALSE]
    /\ UNCHANGED <<phase, now, run, keyVars, nonceVars, chainVars, receiverVars,
                   disk_tampered, tmp, log, crypto_available, configVars, lockVars>>

\* Out-of-band: a section of the record is taken away (a record written by a
\* deployment that did not have the component).
RemoveSection ==
    /\ phase = "down"
    /\ disk.well_formed
    /\ \E name \in {"rsa_keys", "nonce_store", "hashchain", "receiver_buffer"} :
         /\ disk[name].present
         /\ disk' = [disk EXCEPT ![name] = NoRecord[name]]
         /\ disk_tampered' = IF name = "hashchain" THEN {} ELSE disk_tampered
    /\ UNCHANGED <<phase, now, run, keyVars, nonceVars, chainVars, receiverVars,
                   tmp, log, crypto_available, configVars, lockVars>>

\* ------------------------------------------------- save_all, step by step
\* The sections of the record in the order save_all writes them.
Sections == <<"rsa_keys", "nonce_store", "hashchain", "receiver_buffer">>

\* The sections file does not hold yet.
Unwritten(file) == {i \in DOMAIN Sections : ~file[Sections[i]].present}

\* The first of them.
NextSection(file) ==
    Sections[CHOOSE i \in Unwritten(file) : \A j \in Unwritten(file) : i <= j]

\* save_all starts: the temporary file is created empty. The process is in its
\* shutdown and serves no request.
save_all_begin ==
    /\ phase = "up"
    /\ phase' = "saving"
    /\ tmp' = NoRecord
    /\ UNCHANGED <<now, run, keyVars, nonceVars, chainVars, receiverVars, disk,
                   disk_tampered, log, crypto_available, configVars, lockVars>>

\* As save_all_write, but the section is written into the record itself.
save_all_write_in_place ==
    /\ phase = "saving"
    /\ Unwritten(tmp) # {}
    /\ LET new == save_all(rsa_keys, seen, timestamps, chain, buffer, max_buffer)
           name == NextSection(tmp)
       IN  /\ tmp' = [tmp EXCEPT ![name] = new[name]]
           /\ disk' = [disk EXCEPT ![name] = new[name]]
    /\ UNCHANGED <<phase, now, run, keyVars, nonceVars, chainVars, receiverVars,
                   disk_tampered, log, crypto_available, configVars, lockVars>>

\* save_all writes the next section into the temporary file.
save_all_write ==
    /\ phase = "saving"
    /\ Unwritten(tmp) # {}
    /\ LET new == save_all(rsa_keys, seen, timestamps, chain, buffer, max_buffer)
           name == NextSection(tmp)
       IN  tmp' = [tmp EXCEPT ![name] = new[name]]
    /\ UNCHANGED <<phase, now, run, keyVars, nonceVars, chainVars, receiverVars,
                   disk, disk_tampered, log, crypto_available, configVars, lockVars>>

\* save_all renames the complete temporary file over the record; lifespan
\* returns and the process ends.
save_all_rename ==
    /\ phase = "saving"
    /\ Unwritten(tmp) = {}
    /\ disk' = tmp
    /\ disk_tampered' = tampered
    /\ tmp' = NoRecord
    /\ ProcessEnds
    /\ UNCHANGED <<now, run, log, crypto_available, configVars, lockVars>>

\* The process is killed inside save_all: the temporary file stays as it is.
CrashInSnapshot ==
    /\ phase = "saving"
    /\ ProcessEnds
    /\ UNCHANGED <<now, run, diskVars, log, crypto_available, configVars, lockVars>>

\* ----------------------------------------------------------------- signer
\* SignatureRequest.key_id / VerifyRequest.public_key_id and .message.
KeyIds == {"default", "other"}
Texts == {"a", "b"}

\* rsa_keys[id]["private"] and rsa_keys[id]["public"]: the halves of pair k.
private(k) == k
public(k) == k

\* Bytes that are no signature at all.
Garbage == [key |-> 0, message |-> "", intact |-> FALSE]

\* signer.sign(private_key, message): the signature bytes.
sign(private_key, message) ==
    [key |-> private_key, message |-> message, intact |-> TRUE]

\* signer.verify(public_key, message, signature): false for anything that is
\* not a signature of message under the pair; it does not raise.
verify(public_key, message, signature) ==
    /\ signature.intact
    /\ signature.key = public_key
    /\ signature.message = message

\* base64.b64encode(bytes).decode('utf-8')
b64encode(bytes) == [kind |-> "b64", bytes |-> bytes]

\* A string base64.b64decode refuses (incorrect padding), and no string.
BadBase64 == [kind |-> "junk", bytes |-> Garbage]
NoSignature == [kind |-> "none", bytes |-> Garbage]

\* base64.b64decode(text): binascii.Error on a string that is not base64.
b64decode(text) ==
    IF text.kind = "b64" THEN [raised |-> FALSE, bytes |-> text.bytes]
    ELSE [raised |-> TRUE, bytes |-> Garbage]

\* The pair a key id names, 0 when the id is absent.
PairOf(keys, id) == IF id \in DOMAIN keys THEN keys[id] ELSE 0

\* POST /signature/sign. The HTTPException(404) of line 232 is raised inside
\* the try and is an Exception: line 248 catches it and line 250 answers 500.
sign_message ==
    /\ CanServe
    /\ \E key_id \in KeyIds, message \in Texts :
         LET known == key_id \in DOMAIN rsa_keys
             entry == [op |-> "sign_message", run |-> run, key_id |-> key_id,
                       arg |-> message, known |-> known,
                       pair |-> PairOf(rsa_keys, key_id)]
         IN  IF ~known
             THEN log' = Append(log, entry @@ [status |-> 500, success |-> FALSE,
                                               signature |-> NoSignature,
                                               valid |-> FALSE])
             ELSE LET private_key == private(rsa_keys[key_id])
                      signature == sign(private_key, message)
                  IN  log' = Append(log, entry @@ [status |-> 200, success |-> TRUE,
                                                   signature |-> b64encode(signature),
                                                   valid |-> FALSE])
    /\ UNCHANGED <<phase, now, run, keyVars, nonceVars, chainVars, receiverVars,
                   diskVars, crypto_available, configVars, lockVars>>

\* The signatures the service has handed out.
Signed ==
    {log[i].signature : i \in {k \in DOMAIN log : /\ log[k].op = "sign_message"
                                                  /\ log[k].status = 200}}

\* VerifyRequest.signature: any string a client sends: a signature it was
\* given, one with a bit flipped, base64 of other bytes, a string that is not
\* base64.
SignatureTexts ==
    Signed \cup {b64encode([t.bytes EXCEPT !.intact = FALSE]) : t \in Signed}
           \cup {b64encode(Garbage), BadBase64}

\* As verify_signature, but the base64 text is handed to verify as it came.
verify_signature_no_decode ==
    /\ CanServe
    /\ \E key_id \in KeyIds, message \in Texts, signature \in SignatureTexts :
         LET known == key_id \in DOMAIN rsa_keys
             entry == [op |-> "verify_signature", run |-> run, key_id |-> key_id,
                       arg |-> message, known |-> known,
                       pair |-> PairOf(rsa_keys, key_id), signature |-> signature,
                       success |-> FALSE]
         IN  IF ~known
             THEN log' = Append(log, entry @@ [status |-> 500, valid |-> FALSE])
             ELSE LET public_key == public(rsa_keys[key_id])
                      is_valid == verify(public_key, message, Garbage)
                  IN  log' = Append(log, entry @@ [status |-> 200,
                                                   valid |-> is_valid])
    /\ UNCHANGED <<phase, now, run, keyVars, nonceVars, chainVars, receiverVars,
                   diskVars, crypto_available, configVars, lockVars>>

\* POST /signature/verify. As in sign_message the 404 of line 257 ends as a
\* 500; so does the binascii.Error of line 264.
verify_signature ==
    /\ CanServe
    /\ \E key_id \in KeyIds, message \in Texts, signature \in SignatureTexts :
         LET known == key_id \in DOMAIN rsa_keys
             entry == [op |-> "verify_signature", run |-> run, key_id |-> key_id,
                       arg |-> message, known |-> known,
                       pair |-> PairOf(rsa_keys, key_id), signature |-> signature,
                       success |-> FALSE]
         IN  IF ~known
             THEN log' = Append(log, entry @@ [status |-> 500, valid |-> FALSE])
             ELSE LET public_key == public(rsa_keys[key_id])
                      signature_bytes == b64decode(signature)
                      is_valid == verify(public_key, message, signature_bytes.bytes)
                  IN  IF signature_bytes.raised
                      THEN log' = Append(log, entry @@ [status |-> 500,
                                                        valid |-> FALSE])
                      ELSE log' = Append(log, entry @@ [status |-> 200,
                                                        valid |-> is_valid])
    /\ UNCHANGED <<phase, now, run, keyVars, nonceVars, chainVars, receiverVars,
                   diskVars, crypto_available, configVars, lockVars>>

\* ------------------------------------------------------------ jwt_handler
\* The designated signing key of jwt_handler, and a key of somebody else.
JWT_SECRET == "secret"
AttackerKey == "attacker"

\* The header create_jwt writes.
Header == "HS256"

\* The signature over the encoded header and claims: unforgeable, so it is the
\* encoding of the key and of what was signed.
MAC(key, header, body) == <<key, header, body>>

\* No token (a failed create_jwt returns none).
NoToken == <<>>

\* create_jwt(payload, exp_seconds) at instant t: the token is the sequence of
\* its three parts, header, claims with the expiration, signature.
create_jwt(payload, exp_seconds, t) ==
    IF exp_seconds <= 0
    THEN [raised |-> TRUE, error |-> "InvalidTtlError", token |-> NoToken]
    ELSE LET body == [claims |-> payload, exp |-> t + exp_seconds]
         IN  [raised |-> FALSE, error |-> "",
              token |-> <<Header, body, MAC(JWT_SECRET, Header, body)>>]

\* The payload of a failed verification.
NoPayload == [claims |-> "", exp |-> 0]

\* verify_jwt(token) at instant t: (is_valid, claims or error kind). sigfirst:
\* whether the implementation compares the signature before the expiration.
verify_jwt(token, t, sigfirst) ==
    LET fail(kind) == [valid |-> FALSE, payload |-> NoPayload, error |-> kind]
    IN  IF Len(token) # 3 THEN fail("MalformedTokenError")
        ELSE LET sig_ok == token[3] = MAC(JWT_SECRET, token[1], token[2])
                 expired == t >= token[2].exp
             IN  IF sigfirst /\ ~sig_ok THEN fail("InvalidSignatureError")
                 ELSE IF expired THEN fail("ExpiredTokenError")
                 ELSE IF ~sig_ok THEN fail("InvalidSignatureError")
                 ELSE [valid |-> TRUE, payload |-> token[2], error |-> ""]

\* JWTRequest.payload and JWTRequest.exp_seconds (an int, not constrained).
Claims == {"c1", "c2"}
Ttls == {-1, 0, 1, 2}

\* As JWTReply, but a failed create_jwt is answered with a stand-in token.
JWTReplyFallback(payload, exp_seconds, r) ==
    LET body == IF r.raised THEN [claims |-> payload, exp |-> now + 2]
                ELSE r.token[2]
        token == IF r.raised THEN <<Header, body, MAC("mock", Header, body)>>
                 ELSE r.token
    IN  [op |-> "create_jwt_token", arg |-> payload, ttl |-> exp_seconds,
         at |-> now, status |-> 200, token |-> token, payload |-> body,
         expires_at |-> body.exp]

\* The reply of POST /auth/jwt/create: 500 when create_jwt raised, else the
\* token, its decoded second part and that part's exp (lines 283-300).
JWTReply(payload, exp_seconds, r) ==
    IF r.raised
    THEN [op |-> "create_jwt_token", arg |-> payload, ttl |-> exp_seconds,
          at |-> now, status |-> 500, token |-> NoToken, payload |-> NoPayload,
          expires_at |-> 0]
    ELSE [op |-> "create_jwt_token", arg |-> payload, ttl |-> exp_seconds,
          at |-> now, status |-> 200, token |-> r.token, payload |-> r.token[2],
          expires_at |-> r.token[2].exp]

\* As create_jwt_token, but request.exp_seconds is not handed to create_jwt,
\* which then applies its default lifetime.
create_jwt_token_default_ttl ==
    /\ CanServe
    /\ \E payload \in Claims, exp_seconds \in Ttls :
         LET r == create_jwt(payload, 2, now)
         IN  log' = Append(log, JWTReply(payload, exp_seconds, r))
    /\ UNCHANGED <<phase, now, run, keyVars, nonceVars, chainVars, receiverVars,
                   diskVars, crypto_available, configVars, lockVars>>

\* POST /auth/jwt/create
create_jwt_token ==
    /\ CanServe
    /\ \E payload \in Claims, exp_seconds \in Ttls :
         LET r == create_jwt(payload, exp_seconds, now)
         IN  log' = Append(log, JWTReply(payload, exp_seconds, r))
    /\ UNCHANGED <<phase, now, run, keyVars, nonceVars, chainVars, receiverVars,
                   diskVars, crypto_available, configVars, lockVars>>

\* The tokens the service has handed out.
Issued ==
    {log[i].token : i \in {k \in DOMAIN log : /\ log[k].op = "create_jwt_token"
                                              /\ log[k].status = 200}}

\* What somebody holding token can make of it: other claims, a later
\* expiration, another header, a signature of their own, a missing part.
Variants(token) ==
    {<<token[1], [token[2] EXCEPT !.claims = c], token[3]>> :
        c \in Claims \ {token[2].claims}}
    \cup {<<token[1], [token[2] EXCEPT !.exp = @ + 1], token[3]>>,
          <<"none", token[2], token[3]>>,
          <<token[1], token[2], MAC(AttackerKey, token[1], token[2])>>,
          <<token[1], token[2]>>}

\* VerifyJWTRequest.token: any string a client sends.
Presentable == Issued \cup UNION {Variants(token) : token \in Issued}

\* As JWTVerifyReply, but the test is on result, which is never empty.
JWTVerifyReplyTruthyResult(token, r) ==
    [op |-> "verify_jwt_token", arg |-> token, at |-> now, status |-> 200,
     valid |-> TRUE, payload |-> r.payload, error |-> r.error]

\* As JWTVerifyReply, but an expired token is answered as valid.
JWTVerifyReplyAcceptsExpired(token, r) ==
    [op |-> "verify_jwt_token", arg |-> token, at |-> now, status |-> 200,
     valid |-> r.valid \/ r.error = "ExpiredTokenError",
     payload |-> r.payload, error |-> r.error]

\* The reply of POST /auth/jwt/verify (lines 311-320).
JWTVerifyReply(token, r) ==
    [op |-> "verify_jwt_token", arg |-> token, at |-> now, status |-> 200,
     valid |-> r.valid, payload |-> r.payload, error |-> r.error]

\* POST /auth/jwt/verify
verify_jwt_token ==
    /\ CanServe
    /\ \E token \in Presentable :
         LET r == verify_jwt(token, now, signature_first)
         IN  log' = Append(log, JWTVerifyReply(token, r))
    /\ UNCHANGED <<phase, now, run, keyVars, nonceVars, chainVars, receiverVars,
                   diskVars, crypto_available, configVars, lockVars>>

\* ------------------------------------------------------ simple_test_api
\* The module globals of simple_test_api.py (lines 33-53); CRYPTO_AVAILABLE is
\* settled by the imports of lines 22-31.
InitSimple ==
    /\ phase = "down"
    /\ now = 0
    /\ run = 0
    /\ rsa_keys = EmptyMap
    /\ max_age = NONCE_MAX_AGE
    /\ seen = {}
    /\ timestamps = EmptyMap
    /\ chain = <<>>
    /\ buffer = <<>>
    /\ max_buffer = MaxBuffer
    /\ last_heartbeat = 0
    /\ disk = NoRecord
    /\ tmp = NoRecord
    /\ log = <<>>
    /\ crypto_available \in BOOLEAN
    /\ disk_tampered = {}
    /\ tampered = {}
    /\ RECEIVER_BUFFER_SIZE = MaxBuffer
    /\ signature_first = TRUE
    /\ lock = [c \in Components |-> Free]
    /\ pc = [w \in Workers |-> Idle]

\* A simple_test_api process starts: the globals are constructed, the startup
\* half of its lifespan generates the keys; nothing is loaded.
simple_lifespan_startup ==
    /\ phase = "down"
    /\ run < MaxRuns
    /\ rsa_keys' = IF crypto_available THEN initialize_keys(EmptyMap, run + 1)
                   ELSE EmptyMap
    /\ seen' = {}
    /\ timestamps' = EmptyMap
    /\ phase' = "up"
    /\ run' = run + 1
    /\ UNCHANGED <<now, max_age, chainVars, receiverVars, diskVars, log,
                   crypto_available, configVars, lockVars>>

\* simple_test_api.lifespan, shutdown half: nothing is saved; the process ends.
simple_lifespan_shutdown ==
    /\ phase = "up"
    /\ ProcessEnds
    /\ UNCHANGED <<now, run, diskVars, log, crypto_available, configVars, lockVars>>

\* The reply of simple_test_api's check_nonce: an exception inside the check
\* and the mock fallback both answer accepted.
SimpleNonceReply(v, r) ==
    [op |-> "check_nonce", run |-> run, arg |-> v, at |-> now, status |-> 200,
     accepted |-> IF crypto_available /\ ~r.raised THEN r.accepted ELSE TRUE]

\* simple_test_api: POST /security/nonce/check (request.get('nonce') is any
\* JSON value).
simple_check_nonce ==
    /\ CanServe
    /\ \E v \in NonceStrings \cup {Unhashable}, purge \in BOOLEAN :
         LET r == check_and_add(seen, timestamps, v, now, max_age, purge)
         IN  /\ seen' = IF crypto_available THEN r.seen ELSE seen
             /\ timestamps' = IF crypto_available THEN r.timestamps ELSE timestamps
             /\ log' = Append(log, SimpleNonceReply(v, r))
    /\ UNCHANGED <<phase, now, run, keyVars, max_age, chainVars, receiverVars,
                   diskVars, crypto_available, configVars, lockVars>>

NextSimple ==
    Tick \/ simple_lifespan_startup \/ simple_lifespan_shutdown \/ simple_check_nonce

SpecSimple == InitSimple /\ [][NextSimple]_vars

\* --------------------------------------------------------- specifications
Lifecycle == Tick \/ lifespan_startup \/ lifespan_shutdown \/ Crash

NextNonce == Lifecycle \/ check_nonce

SpecNonce == Init /\ [][NextNonce]_vars

NextChain == Lifecycle \/ append_to_hashchain \/ get_hashchain

SpecChain == Init /\ [][NextChain]_vars

NextTamper == Lifecycle \/ append_to_hashchain \/ TamperRecord

SpecTamper == Init /\ [][NextTamper]_vars

NextReceiver == Lifecycle \/ Reconfigure \/ receive_message \/ send_heartbeat

SpecReceiver == Init /\ [][NextReceiver]_vars

\* The persisted chain under tampering that recomputes the entry's hash.
NextRehash ==
    \/ lifespan_startup
    \/ lifespan_shutdown
    \/ append_to_hashchain
    \/ TamperRecordRehashed

SpecRehash == Init /\ [][NextRehash]_vars

\* ------------------------------------------------- operations under locks
\* The component calls a handler makes, in the order it makes them; each call
\* takes the component's lock, works, and gives the lock back.
Needs(op) ==
    CASE op = "sign_message" -> <<"keys">>
      [] op = "verify_signature" -> <<"keys">>
      [] op = "create_jwt_token" -> <<>>
      [] op = "check_nonce" -> <<"nonces">>
      [] op = "append_to_hashchain" -> <<"chain", "chain">>
      [] op = "receive_message" -> <<"receiver">>
      [] op = "send_heartbeat" -> <<"receiver">>
      [] op = "get_audit_status" -> <<"chain", "chain", "receiver">>

Operations ==
    {"sign_message", "verify_signature", "create_jwt_token", "check_nonce",
     "append_to_hashchain", "receive_message", "send_heartbeat", "get_audit_status"}

InFlight == Cardinality({w \in Workers : pc[w] # Idle})

\* The process runs its handlers (also while the lifespan is in its shutdown
\* half: the model lets requests in flight overlap the snapshot).
Running == phase \in {"up", "stopping", "saved"}

\* A request arrives and its handler starts.
op_start(w) ==
    /\ phase = "up"
    /\ pc[w] = Idle
    /\ Len(log) + InFlight < MaxOps
    /\ \E op \in Operations :
         pc' = [pc EXCEPT ![w] = [op |-> op, k |-> 1, at |-> "waiting"]]
    /\ UNCHANGED <<phase, now, run, keyVars, nonceVars, chainVars, receiverVars,
                   diskVars, log, crypto_available, configVars, lock>>

\* The handler's next component call takes the component's lock.
op_acquire(w) ==
    /\ Running
    /\ pc[w].at = "waiting"
    /\ pc[w].k <= Len(Needs(pc[w].op))
    /\ lock[Needs(pc[w].op)[pc[w].k]] = Free
    /\ lock' = [lock EXCEPT ![Needs(pc[w].op)[pc[w].k]] = w]
    /\ pc' = [pc EXCEPT ![w].at = "holding"]
    /\ UNCHANGED <<phase, now, run, keyVars, nonceVars, chainVars, receiverVars,
                   diskVars, log, crypto_available, configVars>>

\* As op_release, but the lock is kept.
op_release_keeps_lock(w) ==
    /\ Running
    /\ pc[w].at = "holding"
    /\ pc' = [pc EXCEPT ![w].at = "waiting", ![w].k = @ + 1]
    /\ UNCHANGED <<phase, now, run, keyVars, nonceVars, chainVars, receiverVars,
                   diskVars, log, crypto_available, configVars, lock>>

\* The component call does its work and gives the lock back: check_and_add,
\* last_hash then append, receive, heartbeat change their component; the other
\* calls read.
op_release(w) ==
    /\ Running
    /\ pc[w].at = "holding"
    /\ LET op == pc[w].op
           k == pc[w].k
       IN  /\ IF op = "check_nonce"
              THEN \E v \in {"n1"}, purge \in {TRUE} :
                      LET r == check_and_add(seen, timestamps, v, now, max_age, purge)
                      IN  seen' = r.seen /\ timestamps' = r.timestamps
              ELSE UNCHANGED <<seen, timestamps>>
           /\ IF op = "append_to_hashchain" /\ k = 2
              THEN \E data \in {"p1"} : chain' = append(chain, data, now).chain
              ELSE UNCHANGED chain
           /\ IF op = "receive_message"
              THEN \E m \in {[body |-> "m1", corrupt |-> FALSE]} :
                      buffer' = receive(buffer, max_buffer, m).buffer
              ELSE UNCHANGED buffer
           /\ IF op = "send_heartbeat"
              THEN last_heartbeat' = now
              ELSE UNCHANGED last_heartbeat
           /\ lock' = [lock EXCEPT ![Needs(op)[k]] = Free]
           /\ pc' = [pc EXCEPT ![w].at = "waiting", ![w].k = @ + 1]
    /\ UNCHANGED <<phase, now, run, keyVars, max_age, tampered, max_buffer,
                   diskVars, log, crypto_available, configVars>>

\* The handler has made its calls and answers (the log counts the answers).
op_finish(w) ==
    /\ Running
    /\ pc[w].at = "waiting"
    /\ pc[w].k > Len(Needs(pc[w].op))
    /\ log' = Append(log, [op |-> "handler", status |-> 200])
    /\ pc' = [pc EXCEPT ![w] = Idle]
    /\ UNCHANGED <<phase, now, run, keyVars, nonceVars, chainVars, receiverVars,
                   diskVars, crypto_available, configVars, lock>>

\* The server is told to stop: it takes no new request and the lifespan goes
\* on after its yield.
shutdown_begin ==
    /\ phase = "up"
    /\ phase' = "stopping"
    /\ UNCHANGED <<now, run, keyVars, nonceVars, chainVars, receiverVars,
                   diskVars, log, crypto_available, configVars, lockVars>>

\* The components save_all has borrowed so far.
Borrowed == {c \in Components : lock[c] = Lifespan}

\* save_all borrows the next component, in the order of its arguments.
snapshot_borrow ==
    /\ phase = "stopping"
    /\ \E i \in 1..Len(ComponentOrder) :
         /\ \A j \in 1..(i - 1) : ComponentOrder[j] \in Borrowed
         /\ lock[ComponentOrder[i]] = Free
         /\ lock' = [lock EXCEPT ![ComponentOrder[i]] = Lifespan]
    /\ UNCHANGED <<phase, now, run, keyVars, nonceVars, chainVars, receiverVars,
                   diskVars, log, crypto_available, configVars, pc>>

\* save_all holds every component: it writes the record and gives them back.
snapshot_save ==
    /\ phase = "stopping"
    /\ Borrowed = Components
    /\ disk' = save_all(rsa_keys, seen, timestamps, chain, buffer, max_buffer)
    /\ disk_tampered' = tampered
    /\ lock' = [c \in Components |-> Free]
    /\ phase' = "saved"
    /\ UNCHANGED <<now, run, keyVars, nonceVars, chainVars, receiverVars, tmp,
                   log, crypto_available, configVars, pc>>

\* The lifespan has returned and no handler is left: the process ends.
process_exit ==
    /\ phase = "saved"
    /\ \A w \in Workers : pc[w] = Idle
    /\ ProcessEnds
    /\ UNCHANGED <<now, run, diskVars, log, crypto_available, configVars, lockVars>>

NextProgress ==
    \/ lifespan_startup
    \/ \E w \in Workers : op_start(w) \/ op_acquire(w) \/ op_release(w) \/ op_finish(w)
    \/ shutdown_begin
    \/ snapshot_borrow
    \/ snapshot_save
    \/ process_exit

\* The last process run the model follows: the runs before it were killed
\* and left no record.
InitProgress ==
    /\ phase = "down"
    /\ now = 0
    /\ run = MaxRuns - 1
    /\ rsa_keys = EmptyMap
    /\ max_age = NONCE_MAX_AGE
    /\ seen = {}
    /\ timestamps = EmptyMap
    /\ chain = <<>>
    /\ buffer = <<>>
    /\ max_buffer = MaxBuffer
    /\ last_heartbeat = 0
    /\ disk = NoRecord
    /\ tmp = NoRecord
    /\ log = <<>>
    /\ crypto_available = TRUE
    /\ disk_tampered = {}
    /\ tampered = {}
    /\ RECEIVER_BUFFER_SIZE = MaxBuffer
    /\ signature_first = TRUE
    /\ lock = [c \in Components |-> Free]
    /\ pc = [w \in Workers |-> Idle]

SpecProgress == InitProgress /\ [][NextProgress]_vars

\* Fair scheduling: a handler that can go on does; a lock that is free again
\* and again goes to each one waiting for it.
FairProgress ==
    /\ \A w \in Workers :
         /\ SF_vars(op_acquire(w))
         /\ WF_vars(op_release(w))
         /\ WF_vars(op_finish(w))
    /\ SF_vars(snapshot_borrow)
    /\ WF_vars(snapshot_save)
    /\ WF_vars(process_exit)

SpecProgressFair == SpecProgress /\ FairProgress

\* jwt_handler compares the signature first, or the expiration first.
InitToken ==
    /\ phase = "down"
    /\ now = 0
    /\ run = 0
    /\ rsa_keys = EmptyMap
    /\ max_age = NONCE_MAX_AGE
    /\ seen = {}
    /\ timestamps = EmptyMap
    /\ chain = <<>>
    /\ buffer = <<>>
    /\ max_buffer = MaxBuffer
    /\ last_heartbeat = 0
    /\ disk = NoRecord
    /\ tmp = NoRecord
    /\ log = <<>>
    /\ crypto_available = TRUE
    /\ disk_tampered = {}
    /\ tampered = {}
    /\ RECEIVER_BUFFER_SIZE = MaxBuffer
    /\ signature_first \in BOOLEAN
    /\ lock = [c \in Components |-> Free]
    /\ pc = [w \in Workers |-> Idle]

\* A token is not state of the process and the signing key is fixed: one
\* process run shows everything a token can meet.
NextToken == Tick \/ lifespan_startup \/ create_jwt_token \/ verify_jwt_token

SpecToken == InitToken /\ [][NextToken]_vars

\* Every process run ends in its shutdown snapshot.
NextPersist ==
    \/ Tick
    \/ lifespan_startup
    \/ lifespan_shutdown
    \/ check_nonce
    \/ append_to_hashchain
    \/ receive_message

SpecPersist == Init /\ [][NextPersist]_vars

\* The shutdown snapshot in its steps, a kill possible at each of them.
NextSnapshot ==
    \/ lifespan_startup
    \/ Crash
    \/ append_to_hashchain
    \/ receive_message
    \/ save_all_begin
    \/ save_all_write
    \/ save_all_rename
    \/ CrashInSnapshot

SpecSnapshot == Init /\ [][NextSnapshot]_vars

\* The record a process starts on: whole, in part, none, or unreadable.
NextRecord ==
    \/ lifespan_startup
    \/ lifespan_startup_fails
    \/ lifespan_shutdown
    \/ CorruptRecord
    \/ RemoveSection
    \/ check_nonce
    \/ append_to_hashchain
    \/ receive_message

SpecRecord == Init /\ [][NextRecord]_vars

\* One process run, its handlers called in every order; calls at one instant
\* are the concurrent ones (each handler is a coroutine without an await: the
\* event loop runs it to its end before it runs another).
NextSerial ==
    \/ Tick
    \/ lifespan_startup
    \/ check_nonce
    \/ append_to_hashchain
    \/ receive_message
    \/ send_heartbeat

SpecSerial == Init /\ [][NextSerial]_vars

\* Readers among writers in one process run.
NextRead ==
    \/ lifespan_startup
    \/ append_to_hashchain
    \/ receive_message
    \/ get_hashchain
    \/ get_audit_status

SpecRead == Init /\ [][NextRead]_vars

\* The status of a receiver of any capacity at any fill: the process starts on
\* the record of a deployment configured with the capacity, the buffer filled
\* to some length.
Filled(n) == [i \in 1..n |-> [body |-> "m1", corrupt |-> FALSE]]

InitStatus ==
    /\ phase = "down"
    /\ now = 0
    /\ run = 0
    /\ rsa_keys = EmptyMap
    /\ max_age = NONCE_MAX_AGE
    /\ seen = {}
    /\ timestamps = EmptyMap
    /\ chain = <<>>
    /\ buffer = <<>>
    /\ max_buffer = MaxBuffer
    /\ last_heartbeat = 0
    /\ \E capacity \in 1..MaxCapacity :
         /\ RECEIVER_BUFFER_SIZE = capacity
         /\ \E n \in 0..capacity :
              disk = save_all(initialize_keys(EmptyMap, 0), {}, EmptyMap, <<>>,
                              Filled(n), capacity)
    /\ tmp = NoRecord
    /\ log = <<>>
    /\ crypto_available = TRUE
    /\ disk_tampered = {}
    /\ tampered = {}
    /\ signature_first = TRUE
    /\ lock = [c \in Components |-> Free]
    /\ pc = [w \in Workers |-> Idle]

NextStatus ==
    \/ lifespan_startup
    \/ receive_message
    \/ get_audit_status

SpecStatus == InitStatus /\ [][NextStatus]_vars

\* gen_rsa(): a pair no key id has held (pairs are numbered upwards).
Highest(S) == CHOOSE x \in S : \A y \in S : y <= x
gen_rsa(keys) == 1 + Highest({0} \cup {keys[x] : x \in DOMAIN keys})

\* initialize_keys() called in a process that already holds keys.
initialize_keys_called ==
    /\ CanServe
    /\ rsa_keys' = initialize_keys(rsa_keys, gen_rsa(rsa_keys))
    /\ log' = Append(log, [op |-> "initialize_keys", status |-> 200])
    /\ UNCHANGED <<phase, now, run, nonceVars, chainVars, receiverVars,
                   diskVars, crypto_available, configVars, lockVars>>

\* The key sections a record can hold: pairs of earlier process runs under
\* some of the key ids.
OldPairs == {1, 2}
KeyMaps ==
    UNION {[ids -> OldPairs] : ids \in (SUBSET KeyIds) \ {{}}}

InitKeys ==
    /\ phase = "down"
    /\ now = 0
    /\ run = 0
    /\ rsa_keys = EmptyMap
    /\ max_age = NONCE_MAX_AGE
    /\ seen = {}
    /\ timestamps = EmptyMap
    /\ chain = <<>>
    /\ buffer = <<>>
    /\ max_buffer = MaxBuffer
    /\ last_heartbeat = 0
    /\ \/ disk = NoRecord
       \/ \E keys \in KeyMaps :
            disk = save_all(keys, {}, EmptyMap, <<>>, <<>>, MaxBuffer)
    /\ tmp = NoRecord
    /\ log = <<>>
    /\ crypto_available = TRUE
    /\ disk_tampered = {}
    /\ tampered = {}
    /\ RECEIVER_BUFFER_SIZE = MaxBuffer
    /\ signature_first = TRUE
    /\ lock = [c \in Components |-> Free]
    /\ pc = [w \in Workers |-> Idle]

NextKeys ==
    \/ lifespan_startup
    \/ initialize_keys_called
    \/ sign_message
    \/ verify_signature

SpecKeys == InitKeys /\ [][NextKeys]_vars

\* Signing does not read the clock.
NextSign ==
    lifespan_startup \/ lifespan_shutdown \/ Crash \/ sign_message \/ verify_signature

SpecSign == Init /\ [][NextSign]_vars

Next ==
    \/ Lifecycle
    \/ Reconfigure
    \/ check_nonce
    \/ append_to_hashchain
    \/ get_hashchain
    \/ receive_message
    \/ send_heartbeat
    \/ create_jwt_token
    \/ verify_jwt_token
    \/ sign_message
    \/ verify_signature

Spec == Init /\ [][Next]_vars

\* ------------------------------------------------------------ NonceGuard
NonceCalls == {i \in DOMAIN log : log[i].op = "check_nonce"}

\* C1: no two accepted checks of one nonce value are less than max-age apart,
\* whatever happens in between (other nonces, purges, failures inside the check).
C1_AtMostOnce ==
    \A i, j \in NonceCalls :
        (i < j /\ log[i].arg = log[j].arg /\ log[i].accepted /\ log[j].accepted)
            => log[j].at - log[i].at >= NONCE_MAX_AGE

\* The calls of log entry i's batch: the same value, at the same instant of the
\* same process run.
Batch(i) ==
    {j \in NonceCalls : /\ log[j].run = log[i].run
                        /\ log[j].arg = log[i].arg
                        /\ log[j].at = log[i].at}

Accepted(calls) == {j \in calls : log[j].accepted}

First(calls) == CHOOSE i \in calls : \A j \in calls : i <= j

\* No accepted check of call i's value is within max-age before call i.
NotInWindowBefore(i) ==
    \A k \in NonceCalls :
        (k < i /\ log[k].arg = log[i].arg /\ log[k].accepted)
            => log[i].at - log[k].at > NONCE_MAX_AGE

\* C2: of the concurrent checks of one value, at most one is accepted; exactly
\* one, the others being rejected, when the value was not in the window.
C2_ExactlyOneAccepted ==
    \A i \in NonceCalls :
        /\ Cardinality(Accepted(Batch(i))) <= 1
        /\ NotInWindowBefore(First(Batch(i)))
             => /\ Cardinality(Accepted(Batch(i))) = 1
                /\ \A j \in Batch(i) : log[j].status = 200

C2_Witness ==
    \E i, j \in NonceCalls :
        /\ i # j
        /\ j \in Batch(i)
        /\ NotInWindowBefore(First(Batch(i)))
        /\ Cardinality(Batch(i)) >= 3

\* C3: a value never accepted within the last max-age (never seen, or seen
\* longer ago than max-age) is accepted; a value accepted less than max-age
\* ago in this process run is rejected.
C3_FirstSecondAgain ==
    \A j \in NonceCalls :
        /\ NotInWindowBefore(j) => log[j].accepted
        /\ \A i \in NonceCalls :
             (/\ i < j
              /\ log[i].run = log[j].run
              /\ log[i].arg = log[j].arg
              /\ log[i].accepted
              /\ log[j].at - log[i].at < NONCE_MAX_AGE) => ~log[j].accepted

C3_Witness ==
    /\ Len(log) = 3
    /\ \A i \in 1..3 : log[i].op = "check_nonce" /\ log[i].arg = "n1" /\ log[i].run = 1
    /\ log[1].accepted /\ ~log[2].accepted /\ log[3].accepted
    /\ log[2].at - log[1].at < NONCE_MAX_AGE
    /\ log[3].at - log[1].at > NONCE_MAX_AGE

\* The step is a check_nonce call that answers "replay".
RejectedNonceStep ==
    /\ Len(log') = Len(log) + 1
    /\ log'[Len(log')].op = "check_nonce"
    /\ log'[Len(log')].status = 200
    /\ ~log'[Len(log')].accepted

\* C4 as claimed: a rejected check leaves the recorded values and every
\* first_seen as they were.
C4_RejectChangesNothing ==
    [][RejectedNonceStep => (seen' = seen /\ timestamps' = timestamps)]_vars

\* C4: a rejected check records nothing and refreshes nothing: the value's own
\* first_seen and every entry not older than max-age are as they were, and the
\* only entries that may go are those older than max-age.
C4_RejectKeepsWindow ==
    [][RejectedNonceStep =>
         /\ log'[Len(log')].arg \in seen'
         /\ seen' \subseteq seen
         /\ \A x \in seen' : timestamps'[x] = timestamps[x]
         /\ \A x \in seen \ seen' : now - timestamps[x] > NONCE_MAX_AGE]_vars

\* A replay was just rejected while an older entry had been purged.
C4_Witness ==
    /\ Len(log) >= 2
    /\ log[Len(log)].op = "check_nonce"
    /\ ~log[Len(log)].accepted
    /\ log[Len(log)].arg \in seen
    /\ \E i \in NonceCalls :
         /\ log[i].run = log[Len(log)].run
         /\ log[i].accepted
         /\ log[i].arg \notin seen

\* ------------------------------------------------------------ AuditChain
\* C5: entry 0 carries the genesis sentinel as prev_hash, every later entry the
\* hash of its predecessor, every entry's index is its position and its hash
\* is H of its own fields; in every state, after appends and after a restore.
C5_Linkage ==
    \A i \in 1..Len(chain) :
        /\ chain[i].index = i - 1
        /\ i = 1 => chain[i].prev_hash = Genesis
        /\ i > 1 => chain[i].prev_hash = chain[i - 1].hash
        /\ chain[i].hash = H(chain[i].index, chain[i].timestamp,
                             chain[i].payload, chain[i].prev_hash)

\* A restored chain that the second process run has extended.
C5_Witness ==
    /\ phase = "up"
    /\ run = 2
    /\ disk.hashchain.present
    /\ Len(disk.hashchain.chain) >= 1
    /\ Len(chain) > Len(disk.hashchain.chain)
    /\ chain[1] = disk.hashchain.chain[1]

IsPrefix(a, b) == Len(a) <= Len(b) /\ \A i \in 1..Len(a) : a[i] = b[i]

\* C6: while a process runs, every step keeps the committed entries: the chain
\* before it is a prefix of the chain after it, and the snapshot taken at
\* shutdown holds the chain as it was.
C6_AppendOnly ==
    [][phase = "up" =>
         /\ phase' = "up" => IsPrefix(chain, chain')
         /\ disk' # disk => disk'.hashchain.chain = chain]_vars

\* The chain was listed and then extended.
C6_Witness ==
    /\ phase = "up"
    /\ Len(chain) >= 2
    /\ \E i, j \in DOMAIN log :
         /\ i < j
         /\ log[i].op = "get_hashchain"
         /\ Len(log[i].entries) >= 1
         /\ log[j].op = "append_to_hashchain"

\* C7: after any sequence of appends, none included, from one caller or from
\* concurrent ones, and with no out-of-band modification, verify_integrity()
\* is true.
C7_VerifyAfterAppends == verify_integrity(chain)

\* Two appends were served at the same instant.
C7_Witness ==
    /\ Len(chain) >= 2
    /\ chain[1].timestamp = chain[2].timestamp
    /\ chain[1].payload # chain[2].payload

\* C8: a chain with an entry whose payload was replaced out-of-band, hash and
\* prev_hash left as they were, fails verify_integrity(): the persisted chain,
\* and the chain a process has loaded from it, however it was extended since.
C8_TamperDetected ==
    /\ disk_tampered # {} => ~verify_integrity(disk.hashchain.chain)
    /\ tampered # {} => ~verify_integrity(chain)

\* A process runs on a tampered chain it loaded and has extended.
C8_Witness ==
    /\ phase = "up"
    /\ tampered # {}
    /\ Len(chain) > Len(disk.hashchain.chain)

\* ---------------------------------------------------------- IngestReceiver
\* C9: the buffer is never longer than the capacity, after any receive and
\* heartbeat calls and right after a restore of buffer and capacity.
C9_BufferBound == Len(buffer) <= max_buffer

\* A full buffer was restored and has just refused a valid message.
C9_Witness ==
    /\ phase = "up"
    /\ run = 2
    /\ disk.receiver_buffer.present
    /\ Len(disk.receiver_buffer.buffer) = MaxBuffer
    /\ buffer = disk.receiver_buffer.buffer
    /\ Len(log) >= 1
    /\ log[Len(log)].op = "receive_message"
    /\ ~log[Len(log)].arg.corrupt
    /\ ~log[Len(log)].success

\* The step is a receive_message call.
ReceiveStep ==
    /\ Len(log') = Len(log) + 1
    /\ log'[Len(log')].op = "receive_message"

\* C10: on a full buffer receive answers false for every message, valid or
\* not, and the buffer keeps its contents, their order and its length.
C10_FullRejects ==
    [][(ReceiveStep /\ Len(buffer) = max_buffer) =>
         /\ ~log'[Len(log')].success
         /\ buffer' = buffer
         /\ log'[Len(log')].buffer_length = max_buffer]_vars

\* N messages were accepted and the valid (N+1)th was refused.
C10_Witness ==
    /\ phase = "up"
    /\ Len(log) = max_buffer + 1
    /\ \A i \in 1..Len(log) : log[i].op = "receive_message" /\ ~log[i].arg.corrupt
    /\ \A i \in 1..max_buffer : log[i].success
    /\ ~log[Len(log)].success
    /\ log[Len(log)].buffer_length = max_buffer
    /\ Len(buffer) = max_buffer
    /\ buffer[1] = log[1].arg

\* C11: receive answers true exactly when the message passes the integrity
\* check and the buffer is below capacity; on true the buffer is the old one
\* with the message appended at the end, on false it is unchanged; the reply
\* carries the length after the call.
C11_ReceiveContract ==
    [][ReceiveStep =>
         LET reply == log'[Len(log')]
         IN  /\ reply.success <=> (~reply.arg.corrupt /\ Len(buffer) < max_buffer)
             /\ reply.success => buffer' = Append(buffer, reply.arg)
             /\ ~reply.success => buffer' = buffer
             /\ reply.buffer_length = Len(buffer')]_vars

\* A message was accepted, a corrupt one refused with room left, and a second
\* valid one accepted behind the first.
C11_Witness ==
    /\ phase = "up"
    /\ Len(log) = 3
    /\ \A i \in 1..3 : log[i].op = "receive_message"
    /\ log[1].success /\ ~log[2].success /\ log[3].success
    /\ log[2].arg.corrupt
    /\ log[2].buffer_length = 1
    /\ log[1].arg # log[3].arg
    /\ buffer = <<log[1].arg, log[3].arg>>

\* ---------------------------------------------------------- TokenService
CreateCalls == {i \in DOMAIN log : log[i].op = "create_jwt_token"}
VerifyCalls == {i \in DOMAIN log : log[i].op = "verify_jwt_token"}

C13_InvalidTtl ==
    \A i \in CreateCalls :
        log[i].ttl <= 0 =>
            /\ log[i].status = 500
            /\ log[i].token = NoToken
            /\ log[i].token \notin Presentable

\* Requests with exp_seconds 0 and below 0 were refused, one with a positive
\* exp_seconds was served.
C13_Witness ==
    /\ Len(log) = 3
    /\ \A i \in 1..3 : log[i].op = "create_jwt_token"
    /\ log[1].ttl = 0 /\ log[1].status = 500
    /\ log[2].ttl < 0 /\ log[2].status = 500
    /\ log[3].ttl > 0 /\ log[3].status = 200

\* C14: a token that is not one the service issued is never answered as valid;
\* while such a token is also expired, every verification of it reports the
\* same kind, InvalidSignatureError or ExpiredTokenError.
C14_TamperedNeverAccepted ==
    \A j \in VerifyCalls :
        log[j].arg \notin Issued =>
            /\ ~log[j].valid
            /\ (Len(log[j].arg) = 3 /\ log[j].at >= log[j].arg[2].exp) =>
                 /\ log[j].error \in {"InvalidSignatureError", "ExpiredTokenError"}
                 /\ \A k \in VerifyCalls :
                      (log[k].arg = log[j].arg /\ log[k].at >= log[k].arg[2].exp)
                          => log[k].error = log[j].error

\* A token with changed claims was verified at two instants after its
\* expiration.
C14_Witness ==
    /\ Len(log) = 3
    /\ log[1].op = "create_jwt_token" /\ log[1].status = 200
    /\ log[2].op = "verify_jwt_token" /\ log[3].op = "verify_jwt_token"
    /\ log[2].arg = log[3].arg
    /\ Len(log[2].arg) = 3
    /\ log[2].arg[2].claims # log[1].arg
    /\ log[2].arg[3] = log[1].token[3]
    /\ log[2].at >= log[2].arg[2].exp
    /\ log[3].at > log[2].at

\* C15: once a verification of a token has failed with ExpiredTokenError or
\* with InvalidSignatureError, no later verification of that token succeeds
\* (the signing key is the same throughout).
C15_Terminal ==
    \A i, j \in VerifyCalls :
        (/\ i < j
         /\ log[i].arg = log[j].arg
         /\ log[i].error \in {"ExpiredTokenError", "InvalidSignatureError"})
            => ~log[j].valid

\* A forged token failed on its signature before its expiration and was
\* verified again after it.
C15_Witness ==
    /\ Len(log) = 3
    /\ log[1].op = "create_jwt_token" /\ log[1].status = 200
    /\ log[2].op = "verify_jwt_token" /\ log[3].op = "verify_jwt_token"
    /\ log[2].arg = log[3].arg
    /\ Len(log[2].arg) = 3
    /\ log[2].error = "InvalidSignatureError"
    /\ log[2].at < log[2].arg[2].exp
    /\ log[3].at >= log[3].arg[2].exp
    /\ ~log[3].valid

\* ------------------------------------------------------- KeyStore / Signer
SignCalls == {i \in DOMAIN log : log[i].op = "sign_message"}
VerifySigCalls == {i \in DOMAIN log : log[i].op = "verify_signature"}

\* C16: signing under a present key id succeeds, and verifying what sign
\* returned, for the same message under the same key pair, answers true; the
\* pair may be one a later process run restored from the snapshot.
C16_RoundTrip ==
    \A i \in SignCalls :
        /\ log[i].known => (log[i].status = 200 /\ log[i].success)
        /\ \A j \in VerifySigCalls :
             (/\ log[i].status = 200
              /\ log[j].signature = log[i].signature
              /\ log[j].arg = log[i].arg
              /\ log[j].key_id = log[i].key_id
              /\ log[j].pair = log[i].pair) => (log[j].status = 200 /\ log[j].valid)

\* The second process run signed and verified under the pair the first one
\* generated.
C16_Witness ==
    /\ phase = "up"
    /\ run = 2
    /\ disk.rsa_keys.present
    /\ rsa_keys = disk.rsa_keys.keys
    /\ \E i \in SignCalls, j \in VerifySigCalls :
         /\ i < j
         /\ log[i].run = 2 /\ log[j].run = 2
         /\ log[i].pair = 1 /\ log[j].pair = 1
         /\ log[j].signature = log[i].signature
         /\ log[j].arg = log[i].arg
         /\ log[j].valid

\* C17: verifying, under a present key id, a signature value that is not the
\* signature of the message under that key answers false and is not an error.
C17_VerifyNeverRaises ==
    \A j \in VerifySigCalls :
        (/\ log[j].known
         /\ log[j].signature # b64encode(sign(private(log[j].pair), log[j].arg)))
            => (log[j].status = 200 /\ ~log[j].valid)

\* C18: a sign or verify call that names an absent key id is an error, yields
\* no signature, and its error kind is not the kind of any other failure of
\* the same operation.
C18_UnknownKeyDistinct ==
    \A i \in SignCalls \cup VerifySigCalls :
        ~log[i].known =>
            /\ log[i].status # 200
            /\ log[i].signature.kind # "b64" \/ log[i].op = "verify_signature"
            /\ \A j \in SignCalls \cup VerifySigCalls :
                 (/\ log[j].op = log[i].op
                  /\ log[j].known
                  /\ log[j].status # 200) => log[j].status # log[i].status

\* ----------------------------------------------------- PersistenceManager
\* The process memory holds what the record holds, section by section.
SameAsRecord(d, keys, s, ts, c, buf, cap) ==
    /\ DOMAIN keys = DOMAIN d.rsa_keys.keys
    /\ keys = d.rsa_keys.keys
    /\ s = d.nonce_store.seen
    /\ ts = d.nonce_store.timestamps
    /\ c = d.hashchain.chain
    /\ buf = d.receiver_buffer.buffer
    /\ cap = d.receiver_buffer.max_buffer

\* C19: the snapshot a process writes holds every component as it is in
\* memory; nothing changes the record while no process runs; the restore of
\* the next process puts every component back as the record holds it: the same
\* key ids and pairs, nonce values and first_seen instants, chain entries in
\* order, buffer contents and capacity.
C19_RoundTrip ==
    [][/\ (phase = "up" /\ phase' = "down" /\ disk' # disk) =>
            /\ AllPresent(disk')
            /\ SameAsRecord(disk', rsa_keys, seen, timestamps, chain, buffer,
                            max_buffer)
       /\ (phase = "down" /\ phase' = "down") => disk' = disk
       /\ (phase = "down" /\ phase' = "up" /\ AllPresent(disk)) =>
            SameAsRecord(disk, rsa_keys', seen', timestamps', chain', buffer',
                         max_buffer')]_vars

\* The second process run has just restored a nonce recorded earlier, a chain
\* entry and a buffered message, and has served nothing yet.
C19_Witness ==
    /\ phase = "up"
    /\ run = 2
    /\ AllPresent(disk)
    /\ SameAsRecord(disk, rsa_keys, seen, timestamps, chain, buffer, max_buffer)
    /\ rsa_keys["default"] = 1
    /\ \E v \in seen : timestamps[v] < now
    /\ Len(chain) >= 1
    /\ Len(buffer) >= 1
    /\ \A i \in DOMAIN log : log[i].op = "check_nonce" => log[i].run = 1

\* C20: whatever step of a snapshot the process is killed at, the durable
\* record changes only by becoming the complete snapshot of the memory, so the
\* record a starting process reads is a complete snapshot, the previous one or
\* the new one, or no record at all; never a mix, never a part.
C20_SnapshotAtomic ==
    [][/\ disk' # disk =>
            /\ AllPresent(disk')
            /\ disk' = save_all(rsa_keys, seen, timestamps, chain, buffer, max_buffer)
       /\ (phase = "down" /\ phase' = "up") => (disk = NoRecord \/ AllPresent(disk))
       /\ (phase = "saving" /\ phase' = "down") =>
            \/ disk' = disk
            \/ disk' = save_all(rsa_keys, seen, timestamps, chain, buffer,
                                max_buffer)]_vars

\* A process was killed after it had written the chain section of a new
\* snapshot; the record is the previous snapshot, with another chain and
\* another buffer.
C20_Witness ==
    /\ phase = "down"
    /\ AllPresent(disk)
    /\ tmp.hashchain.present
    /\ ~tmp.receiver_buffer.present
    /\ tmp.hashchain.chain # disk.hashchain.chain
    /\ Len(disk.hashchain.chain) >= 1
    /\ \E i \in DOMAIN log : log[i].op = "receive_message" /\ log[i].success

\* The components a process constructs before it loads anything.
FreshNonces == seen' = {} /\ timestamps' = EmptyMap
FreshKeys == DOMAIN rsa_keys' = {"default"} /\ rsa_keys'["default"] = run'
FreshBuffer == buffer' = <<>> /\ max_buffer' = RECEIVER_BUFFER_SIZE

\* C21: a process comes up only on a readable record; on no record at all it
\* comes up with fresh components and a new key pair, on a complete record
\* with what the record holds; on an unreadable record the start fails, no
\* process comes up, and the record stays as it is.
C21_RestoreOutcomes ==
    [][/\ (phase # "up" /\ phase' = "up") =>
            /\ disk.well_formed
            /\ disk = NoRecord =>
                 (FreshKeys /\ FreshNonces /\ chain' = <<>> /\ FreshBuffer)
            /\ AllPresent(disk) =>
                 SameAsRecord(disk, rsa_keys', seen', timestamps', chain', buffer',
                              max_buffer')
       /\ (phase # "up" /\ ~disk.well_formed) =>
            /\ disk' = disk
            /\ phase' # "up"
            /\ run' # run => phase' = "failed"]_vars

\* A start has failed on the damaged record of an earlier process run.
C21_Witness ==
    /\ phase = "failed"
    /\ ~disk.well_formed
    /\ AllPresent(disk)
    /\ Len(disk.hashchain.chain) >= 1
    /\ rsa_keys = EmptyMap

\* C22: whichever sections the record lacks, a starting process loads every
\* section that is there into its component and leaves every other component
\* as constructed, the keys newly generated.
C22_SectionIndependence ==
    [][(phase # "up" /\ phase' = "up") =>
         /\ IF disk.rsa_keys.present
            THEN rsa_keys' = disk.rsa_keys.keys ELSE FreshKeys
         /\ IF disk.nonce_store.present
            THEN /\ seen' = disk.nonce_store.seen
                 /\ timestamps' = disk.nonce_store.timestamps
            ELSE FreshNonces
         /\ IF disk.hashchain.present
            THEN chain' = disk.hashchain.chain ELSE chain' = <<>>
         /\ IF disk.receiver_buffer.present
            THEN /\ buffer' = disk.receiver_buffer.buffer
                 /\ max_buffer' = disk.receiver_buffer.max_buffer
            ELSE FreshBuffer]_vars

\* A process has started on a record without keys and without buffer: it
\* holds the recorded nonces and chain and a key pair of its own.
C22_Witness ==
    /\ phase = "up"
    /\ run = 2
    /\ ~disk.rsa_keys.present
    /\ ~disk.receiver_buffer.present
    /\ disk.nonce_store.present /\ disk.nonce_store.seen # {}
    /\ disk.hashchain.present /\ Len(disk.hashchain.chain) >= 1
    /\ seen = disk.nonce_store.seen
    /\ chain = disk.hashchain.chain
    /\ rsa_keys["default"] = 2
    /\ buffer = <<>>

\* C23: whenever a process serves, every audit entry whose append answered
\* with a hash is in the chain at the position the reply gave, with the
\* payload and the hash of the reply, and every message a receive accepted is
\* in the buffer at the position the reply gave -- whichever way the earlier
\* process runs stopped.
C23_Durable ==
    phase = "up" =>
        \A i \in 1..Len(log) :
            /\ log[i].op = "append_to_hashchain" =>
                 /\ Len(chain) >= log[i].entry_count
                 /\ chain[log[i].entry_count].hash = log[i].hash
                 /\ chain[log[i].entry_count].payload = log[i].arg
            /\ (log[i].op = "receive_message" /\ log[i].success) =>
                 /\ Len(buffer) >= log[i].buffer_length
                 /\ buffer[log[i].buffer_length] = log[i].arg

\* The replies of one kind, in the order they were given.
IsAppend(e) == e.op = "append_to_hashchain"
IsAccepted(e) == e.op = "receive_message" /\ e.success
IsFreshNonce(e) == e.op = "check_nonce" /\ e.accepted
Appends == SelectSeq(log, IsAppend)
AcceptedMessages == SelectSeq(log, IsAccepted)

\* C24: in a process run the state is what the acknowledged operations give
\* when run one at a time in the order of their replies: the chain has one
\* entry per append, the k-th with index k-1, the payload and the hash of the
\* k-th append and linked to the entry before it; the buffer holds the
\* accepted messages in the order of their acceptance; the nonce store holds
\* only nonces a check accepted.
C24_Serialized ==
    phase = "up" =>
        /\ Len(chain) = Len(Appends)
        /\ \A k \in 1..Len(chain) :
             /\ chain[k].index = k - 1
             /\ chain[k].payload = Appends[k].arg
             /\ chain[k].hash = Appends[k].hash
             /\ chain[k].prev_hash = last_hash(SubSeq(chain, 1, k - 1))
             /\ Appends[k].entry_count = k
        /\ Len(buffer) = Len(AcceptedMessages)
        /\ \A k \in 1..Len(buffer) : buffer[k] = AcceptedMessages[k].arg
        /\ \A n \in seen : \E i \in 1..Len(log) : IsFreshNonce(log[i]) /\ log[i].arg = n

\* Two appends at one instant and an accepted message.
C24_Witness ==
    /\ phase = "up"
    /\ Len(chain) = 2
    /\ chain[1].timestamp = chain[2].timestamp
    /\ chain[1].payload = chain[2].payload
    /\ Len(buffer) = 1

\* The replies before the i-th, of one kind.
AppendsBefore(i) == SelectSeq(SubSeq(log, 1, i - 1), IsAppend)
AcceptedBefore(i) == SelectSeq(SubSeq(log, 1, i - 1), IsAccepted)

\* C25: what a read answers is the state between two mutations: the entries
\* of GET /audit/hashchain are the chain as the appends answered before it
\* left it, every entry whole (its hash the hash of its fields, linked to the
\* one before); the status reports the chain length, the last hash and the
\* buffer length that the operations answered before it left.
C25_NoTornReads ==
    phase = "up" =>
        \A i \in 1..Len(log) :
            /\ log[i].op = "get_hashchain" =>
                 /\ log[i].entries = SubSeq(chain, 1, Len(AppendsBefore(i)))
                 /\ verify_integrity(log[i].entries)
            /\ log[i].op = "get_audit_status" =>
                 /\ log[i].chain_length = Len(AppendsBefore(i))
                 /\ log[i].last_hash = last_hash(SubSeq(chain, 1, Len(AppendsBefore(i))))
                 /\ log[i].total_messages = Len(AcceptedBefore(i))

\* The chain was read between two appends.
C25_Witness ==
    /\ phase = "up"
    /\ Len(log) = 3
    /\ log[1].op = "append_to_hashchain"
    /\ log[2].op = "get_hashchain"
    /\ log[3].op = "append_to_hashchain"
    /\ Len(log[2].entries) = 1
    /\ Len(chain) = 2

\* A step that answers GET /audit/status.
StatusStep == log' # log /\ log'[Len(log')].op = "get_audit_status"

\* C27: the status reply calls the buffer "warning" exactly when it holds at
\* least 80% of its capacity (5 * length >= 4 * capacity) and "healthy"
\* otherwise, at every capacity and every length up to it.
C27_WarningThreshold ==
    [][StatusStep =>
         LET reply == log'[Len(log')]
         IN  /\ reply.total_messages = Len(buffer)
             /\ Len(buffer) <= max_buffer
             /\ reply.buffer_status =
                  (IF 5 * Len(buffer) >= 4 * max_buffer THEN "warning" ELSE "healthy")]_vars

\* The status was asked of a buffer at exactly 80% and of one just below.
C27_Witness ==
    /\ phase = "up"
    /\ max_buffer = 5
    /\ Len(log) = 3
    /\ log[1].op = "get_audit_status" /\ log[1].total_messages = 3
    /\ log[1].buffer_status = "healthy"
    /\ log[2].op = "receive_message" /\ log[2].success
    /\ log[3].op = "get_audit_status" /\ log[3].total_messages = 4
    /\ log[3].buffer_status = "warning"

\* The latest append answered before the i-th reply (0: none).
LatestAppendBefore(i) ==
    IF \E j \in 1..(i - 1) : IsAppend(log[j])
    THEN CHOOSE j \in 1..(i - 1) :
            IsAppend(log[j]) /\ \A k \in (j + 1)..(i - 1) : ~IsAppend(log[k])
    ELSE 0

\* C26: the last hash is the genesis sentinel while nothing was appended and
\* afterwards the hash field of the last entry; what an append answers is the
\* hash of the entry it added, and it is the last hash reported until the
\* next append.
C26_LastHash ==
    phase = "up" =>
        \A i \in 1..Len(log) :
            /\ IsAppend(log[i]) =>
                 /\ log[i].hash = chain[log[i].entry_count].hash
                 /\ log[i].hash # Genesis
                 /\ log[i].previous_hash =
                      (IF LatestAppendBefore(i) = 0 THEN Genesis
                       ELSE log[LatestAppendBefore(i)].hash)
            /\ log[i].op = "get_audit_status" =>
                 log[i].last_hash =
                      (IF LatestAppendBefore(i) = 0 THEN Genesis
                       ELSE log[LatestAppendBefore(i)].hash)

\* The last hash was asked for before the first append and after the second.
C26_Witness ==
    /\ phase = "up"
    /\ Len(log) = 3
    /\ log[1].op = "get_audit_status" /\ log[1].last_hash = Genesis
    /\ IsAppend(log[2])
    /\ log[3].op = "get_audit_status" /\ log[3].last_hash = log[2].hash
    /\ chain[1].hash = log[2].hash

\* A step that answers POST /audit/hashchain/append.
AppendStep == log' # log /\ IsAppend(log'[Len(log')])

\* C30: the reply of an append describes the entry that call added, whatever
\* calls came before it: its hash is the entry's hash, its previous_hash the
\* entry's prev_hash, its entry_count the entry's index + 1.
C30_ReplyDescribesEntry ==
    [][AppendStep =>
         LET reply == log'[Len(log')]
             entry == chain'[Len(chain')]
         IN  /\ Len(chain') = Len(chain) + 1
             /\ SubSeq(chain', 1, Len(chain)) = chain
             /\ entry.payload = reply.arg
             /\ reply.hash = entry.hash
             /\ reply.previous_hash = entry.prev_hash
             /\ reply.entry_count = entry.index + 1]_vars

\* Two appends at one instant, each answered with its own entry.
C30_Witness ==
    /\ phase = "up"
    /\ Len(log) >= 2
    /\ IsAppend(log[1]) /\ IsAppend(log[2])
    /\ Len(chain) = 2
    /\ chain[1].timestamp = chain[2].timestamp
    /\ log[1].entry_count = 1 /\ log[2].entry_count = 2
    /\ log[2].previous_hash = log[1].hash
    /\ log[2].hash = chain[2].hash

\* A step that answers POST /receiver/heartbeat.
HeartbeatStep == log' # log /\ log'[Len(log')].op = "send_heartbeat"

\* C28: a heartbeat always answers 200, sets last_heartbeat to the instant of
\* the call and changes nothing else -- not the buffer, not the capacity, no
\* other component, not the record; while a process runs last_heartbeat
\* changes with a heartbeat only and never goes back.
C28_HeartbeatFrame ==
    [][/\ HeartbeatStep =>
            /\ log'[Len(log')].status = 200
            /\ last_heartbeat' = now
            /\ UNCHANGED <<phase, now, run, keyVars, nonceVars, chainVars, buffer,
                           max_buffer, diskVars, configVars>>
       /\ (phase = "up" /\ phase' = "up") =>
            /\ last_heartbeat' >= last_heartbeat
            /\ last_heartbeat' # last_heartbeat => HeartbeatStep]_vars

\* A heartbeat at a later instant than the one before it, the buffer holding
\* a message.
C28_Witness ==
    /\ phase = "up"
    /\ Len(log) = 3
    /\ log[1].op = "receive_message" /\ log[1].success
    /\ log[2].op = "send_heartbeat"
    /\ log[3].op = "send_heartbeat"
    /\ last_heartbeat = now
    /\ now >= 2
    /\ Len(buffer) = 1

\* Steps that answer the key operations.
GenerateStep == log' # log /\ log'[Len(log')].op = "initialize_keys"
SignOrVerifyStep ==
    log' # log /\ log'[Len(log')].op \in {"sign_message", "verify_signature"}

\* C29: generating puts a pair no id held under "default" and leaves the pair
\* of every other id as it was; signing and verifying leave every pair, and
\* the set of ids, as they were.
C29_OnePairPerId ==
    [][/\ GenerateStep =>
            /\ DOMAIN rsa_keys' = DOMAIN rsa_keys \cup {"default"}
            /\ \A id \in DOMAIN rsa_keys \ {"default"} : rsa_keys'[id] = rsa_keys[id]
            /\ \A id \in DOMAIN rsa_keys : rsa_keys'["default"] # rsa_keys[id]
       /\ SignOrVerifyStep => rsa_keys' = rsa_keys]_vars

\* The process restored two ids, signed, and generated again: "default" has a
\* new pair, the other id the pair of the record.
C29_Witness ==
    /\ phase = "up"
    /\ DOMAIN disk.rsa_keys.keys = KeyIds
    /\ DOMAIN rsa_keys = KeyIds
    /\ rsa_keys["other"] = disk.rsa_keys.keys["other"]
    /\ rsa_keys["default"] \notin {disk.rsa_keys.keys[id] : id \in KeyIds}
    /\ Len(log) = 3
    /\ log[1].op = "sign_message" /\ log[1].status = 200
    /\ log[2].op = "initialize_keys"
    /\ log[3].op = "verify_signature"

\* C31: every status reply is of one piece: its last_hash is the hash of the
\* entry at position chain_length - 1 (the genesis sentinel at length 0), and
\* its buffer_status is the one that goes with its total_messages at the
\* receiver's capacity -- whatever appends and receives were answered before
\* and after it.
C31_StatusOfOnePiece ==
    phase = "up" =>
        \A i \in 1..Len(log) :
            log[i].op = "get_audit_status" =>
                /\ log[i].chain_length <= Len(chain)
                /\ log[i].last_hash =
                     (IF log[i].chain_length = 0 THEN Genesis
                      ELSE chain[log[i].chain_length].hash)
                /\ log[i].total_messages <= max_buffer
                /\ log[i].buffer_status =
                     (IF 5 * log[i].total_messages >= 4 * max_buffer
                      THEN "warning" ELSE "healthy")

\* The status was asked after an append and an accepted message.
C31_Witness ==
    /\ phase = "up"
    /\ Len(log) = 3
    /\ IsAppend(log[1])
    /\ IsAccepted(log[2])
    /\ log[3].op = "get_audit_status"
    /\ log[3].chain_length = 1 /\ log[3].total_messages = 1
    /\ log[3].last_hash = log[1].hash
    /\ log[3].buffer_status = "healthy"

\* C32: a nonce value that a process run accepted is rejected by the next
\* process run at every instant less than max-age after the acceptance.
C32_ReplayAcrossRestart ==
    \A i, j \in NonceCalls :
        (/\ log[j].run = log[i].run + 1
         /\ log[j].arg = log[i].arg
         /\ log[i].accepted
         /\ log[j].at - log[i].at < NONCE_MAX_AGE)
            => ~log[j].accepted

\* The step replaces the payload of entry i of an intact persisted chain and
\* recomputes the entry's hash.
RehashStepAt(i) ==
    /\ disk.hashchain.present
    /\ verify_integrity(disk.hashchain.chain)
    /\ \E p \in Payloads \ {disk.hashchain.chain[i].payload} :
         disk' = [disk EXCEPT !.hashchain.chain[i] = Rehashed(@, p)]

\* C33, as stated: replacing the payload of any stored entry and recomputing
\* that entry's hash makes verify_integrity() false.
C33_RehashDetected ==
    [][\A i \in 1..Len(disk.hashchain.chain) :
         RehashStepAt(i) => ~verify_integrity(disk'.hashchain.chain)]_vars

\* C33, amended: replacing the payload of a stored entry and recomputing that
\* entry's hash makes verify_integrity() false exactly when the entry is not
\* the last one (its successor's prev_hash no longer matches); done to the
\* last entry it leaves verify_integrity() true.
C33_RehashDetectedBySuccessor ==
    [][\A i \in 1..Len(disk.hashchain.chain) :
         RehashStepAt(i) =>
            (verify_integrity(disk'.hashchain.chain) <=> i = Len(disk.hashchain.chain))]_vars

\* The first of two persisted entries was given another payload and its hash
\* recomputed: every entry's own hash is right, the second entry's link is not.
C33_Witness ==
    /\ disk.hashchain.present
    /\ Len(disk.hashchain.chain) = 2
    /\ \A k \in 1..2 :
         LET e == disk.hashchain.chain[k]
         IN  e.hash = H(e.index, e.timestamp, e.payload, e.prev_hash)
    /\ disk.hashchain.chain[2].prev_hash # disk.hashchain.chain[1].hash
    /\ ~verify_integrity(disk.hashchain.chain)

\* A handler or the snapshot can take a step.
CanStep ==
    \/ \E w \in Workers :
         ENABLED op_acquire(w) \/ ENABLED op_release(w) \/ ENABLED op_finish(w)
    \/ ENABLED snapshot_borrow
    \/ ENABLED snapshot_save
    \/ ENABLED process_exit

\* C34: while an operation is under way -- a handler that has started and not
\* answered, or the shutdown snapshot -- some operation can take a step (no
\* deadlock); and under fair scheduling every handler that has started answers
\* and a shutdown that has begun writes the record and ends the process.
C34_Progress ==
    /\ []((InFlight > 0 \/ phase \in {"stopping", "saved"}) => CanStep)
    /\ \A w \in Workers : (pc[w] # Idle) ~> (pc[w] = Idle)
    /\ (phase = "stopping") ~> (phase = "down")

\* The snapshot holds the chain while one handler waits for it and another
\* holds the receiver the snapshot needs next.
C34_Witness ==
    /\ phase = "stopping"
    /\ lock["chain"] = Lifespan
    /\ lock["receiver"] = "w2"
    /\ pc["w1"].at = "waiting" /\ pc["w1"].op = "get_audit_status" /\ pc["w1"].k = 1
    /\ pc["w2"].at = "holding" /\ pc["w2"].op = "receive_message"

====
